---- MODULE Spec2Model ----
(***************************************************************************)
(* The image editor's interaction controller (the App component) and its   *)
(* encoder (fileToBase64), as a state machine.                             *)
(*                                                                         *)
(* A JavaScript value that may be null or undefined is a sequence of       *)
(* length 0 (None) or 1 (Some(v)).  A JavaScript string that the code      *)
(* splits is a sequence of one-character strings; a string the code only   *)
(* concatenates or tests for emptiness is a TLA+ string.                   *)
(***************************************************************************)
EXTENDS Integers, Sequences, FiniteSets, TLC

\* ---------------------------------------------------------------- bounds
MaxUploads == 2
MaxGenerateCalls == 3

\* ------------------------------------------------------- nullable values
None == <<>>
Some(v) == <<v>>
IsSome(o) == Len(o) = 1
Get(o) == o[1]

\* ------------------------------------------------------ browser file API
B64Alphabet == <<"A", "B", "C", "D", "E", "F", "G", "H", "I", "J", "K", "L", "M", "N", "O", "P", "Q", "R", "S", "T", "U", "V", "W", "X", "Y", "Z", "a", "b", "c", "d", "e", "f", "g", "h", "i", "j", "k", "l", "m", "n", "o", "p", "q", "r", "s", "t", "u", "v", "w", "x", "y", "z", "0", "1", "2", "3", "4", "5", "6", "7", "8", "9", "+", "/">>

RECURSIVE btoa(_)
\* The base64 text of a byte sequence (RFC 4648, with padding).
btoa(bytes) ==
  IF Len(bytes) = 0 THEN <<>>
  ELSE IF Len(bytes) = 1 THEN
    LET n == bytes[1] * 65536
    IN << B64Alphabet[(n \div 262144) + 1], B64Alphabet[((n \div 4096) % 64) + 1], "=", "=" >>
  ELSE IF Len(bytes) = 2 THEN
    LET n == bytes[1] * 65536 + bytes[2] * 256
    IN << B64Alphabet[(n \div 262144) + 1], B64Alphabet[((n \div 4096) % 64) + 1],
          B64Alphabet[((n \div 64) % 64) + 1], "=" >>
  ELSE
    LET n == bytes[1] * 65536 + bytes[2] * 256 + bytes[3]
    IN << B64Alphabet[(n \div 262144) + 1], B64Alphabet[((n \div 4096) % 64) + 1],
          B64Alphabet[((n \div 64) % 64) + 1], B64Alphabet[(n % 64) + 1] >>
       \o btoa(SubSeq(bytes, 4, Len(bytes)))

OctetStream == <<"a", "p", "p", "l", "i", "c", "a", "t", "i", "o", "n", "/", "o", "c", "t", "e", "t", "-", "s", "t", "r", "e", "a", "m">>

\* The data URL of a file's content: "data:<type>;base64,<payload>".
DataURLOf(file) ==
  <<"d", "a", "t", "a", ":">> \o (IF file.type = <<>> THEN OctetStream ELSE file.type)
         \o <<";", "b", "a", "s", "e", "6", "4", ",">> \o btoa(file.bytes)

\* What a FileReader can deliver for readAsDataURL(file): an error event, or
\* a load event with the data URL.  For an empty file browsers differ: some
\* give the bare "data:", some the full prefix with no payload.
readAsDataURL(file) ==
  { [ok |-> FALSE, result |-> <<>>] }
  \cup { [ok |-> TRUE, result |-> DataURLOf(file)] }
  \cup (IF file.bytes = <<>> THEN { [ok |-> TRUE, result |-> <<"d", "a", "t", "a", ":">>] } ELSE {})

\* --------------------------------------------------------- fileToBase64
RECURSIVE split(_, _)
\* String.prototype.split with a one-character separator.
split(s, sep) ==
  IF \E i \in 1..Len(s) : s[i] = sep
  THEN LET i == CHOOSE k \in 1..Len(s) : s[k] = sep /\ \A j \in 1..(k - 1) : s[j] # sep
       IN <<SubSeq(s, 1, i - 1)>> \o split(SubSeq(s, i + 1, Len(s)), sep)
  ELSE <<s>>

\* The settled promise of fileToBase64(file) when the reader delivers ev.
fileToBase64(file, ev) ==
  IF ~ev.ok THEN [resolved |-> FALSE, data |-> <<>>, mimeType |-> <<>>]
  ELSE LET parts == split(ev.result, ",")
           base64Data == IF Len(parts) >= 2 THEN Some(parts[2]) ELSE None
       IN IF IsSome(base64Data) /\ Get(base64Data) # <<>>
          THEN [resolved |-> TRUE, data |-> Get(base64Data), mimeType |-> file.type]
          ELSE [resolved |-> FALSE, data |-> <<>>, mimeType |-> <<>>]

\* ------------------------------------------------------------ the inputs
\* Files the user can select: {name, type, bytes}.
Files ==
  { [name |-> "a.png", type |-> <<"i", "m", "a", "g", "e", "/", "p", "n", "g">>, bytes |-> <<77, 97, 110>>],
    [name |-> "b.png", type |-> <<"i", "m", "a", "g", "e", "/", "p", "n", "g">>, bytes |-> <<104>>],
    [name |-> "e.png", type |-> <<"i", "m", "a", "g", "e", "/", "p", "n", "g">>, bytes |-> <<>>] }

\* Declared types and contents of the files the encoder is tried on: the
\* type may be empty and may hold a comma; the content may be empty and may
\* end inside a group of three bytes.
EncoderTypes == { <<"i", "m", "a", "g", "e", "/", "p", "n", "g">>, <<>>, <<"a", ",", "b">> }
EncoderContents == { <<>>, <<104>>, <<104, 105>>, <<77, 97, 110>>, <<0, 255, 16, 32>> }
EncoderFiles ==
  { [name |-> "f", type |-> t, bytes |-> b] : t \in EncoderTypes, b \in EncoderContents }

\* Texts of the instruction box.
Prompts == { "", "make it blue" }

\* A content part of a response: {inlineData?: {data?, mimeType?}, text?}.
ImagePart(m, d) == [inlineData |-> Some([mimeType |-> m, data |-> d]), text |-> None]
TextPart(t) == [inlineData |-> None, text |-> Some(t)]
Candidate(parts) == [content |-> Some([parts |-> Some(parts)])]

\* Responses of the remote model: {candidates?: [{content?: {parts?: [...]}}]}.
Responses ==
  { [candidates |-> None],
    [candidates |-> Some(<<>>)],
    [candidates |-> Some(<< [content |-> None] >>)],
    [candidates |-> Some(<< [content |-> Some([parts |-> None])] >>)],
    [candidates |-> Some(<< Candidate(<<>>) >>)],
    [candidates |-> Some(<< Candidate(<< TextPart("I cannot do that") >>) >>)],
    [candidates |-> Some(<< Candidate(<< TextPart("Here it is"), ImagePart(Some("image/png"), Some("QUJD")) >>) >>)],
    [candidates |-> Some(<< Candidate(<< ImagePart(Some("image/png"), Some("QUJD")) >>) >>)],
    [candidates |-> Some(<< Candidate(<< ImagePart(Some("image/webp"), Some("UklG")) >>),
                            Candidate(<< TextPart("second candidate") >>) >>)],
    [candidates |-> Some(<< Candidate(<< ImagePart(Some("image/png"), None) >>) >>)] }

\* Errors the remote call can reject with: objects whose message may be
\* absent, empty or a text.
Errors ==
  { [message |-> None], [message |-> Some("")],
    [message |-> Some("API key not valid")], [message |-> Some("fetch failed")] }

\* How a generateContent call can settle.
Outcomes ==
  { [rejected |-> FALSE, response |-> Some(r), err |-> None] : r \in Responses }
  \cup { [rejected |-> TRUE, response |-> None, err |-> Some(e)] : e \in Errors }

\* ------------------------------------------------------------- the state
VARIABLES
  originalImage,   \* useState: object URL of the selected file, or null
  editedImage,     \* useState: data URI of the result, or null
  base64Image,     \* useState: {data, mimeType} of the encoded file, or null
  prompt,          \* useState: the instruction text
  isLoading,       \* useState
  error,           \* useState: message, or null
  fileName,        \* useState
  rendered,        \* the state values of the last committed render, which the
                   \* callbacks and the button's disabled attribute hold
  encodes,         \* fileToBase64 promises not yet settled
  inflight,        \* generateContent calls not yet settled
  uploads,         \* change events of the file input so far
  generateCalls,   \* invocations of handleGenerate so far
  requestsIssued,  \* generateContent calls so far
  event,           \* history: the step taken last, with what it was given and
                   \* the display state it started from
  resolvedIds      \* history: the uploads whose fileToBase64 promise resolved

vars == << originalImage, editedImage, base64Image, prompt, isLoading, error,
           fileName, rendered, encodes, inflight, uploads, generateCalls,
           requestsIssued, event, resolvedIds >>

display == [editedImage |-> editedImage, isLoading |-> isLoading, error |-> error]

\* The record of a step: its name, the display state before it, and the file
\* and reader event, or the request and outcome, it was about.
Event(name, file, ev, req, out) ==
  [name |-> name, before |-> display, file |-> file, ev |-> ev, req |-> req, out |-> out]

\* The values a render of App captures (the useCallback dependencies and the
\* values the JSX reads).
Snapshot(o, e, b, p, l, er) ==
  [originalImage |-> o, editedImage |-> e, base64Image |-> b, prompt |-> p,
   isLoading |-> l, error |-> er]

\* React commits the updates of an event handler before the next event.
Commit ==
  rendered' = Snapshot(originalImage', editedImage', base64Image', prompt',
                       isLoading', error')

Init ==
  /\ originalImage = None
  /\ editedImage = None
  /\ base64Image = None
  /\ prompt = ""
  /\ isLoading = FALSE
  /\ error = None
  /\ fileName = None
  /\ rendered = Snapshot(None, None, None, "", FALSE, None)
  /\ encodes = {}
  /\ inflight = {}
  /\ uploads = 0
  /\ generateCalls = 0
  /\ requestsIssued = 0
  /\ resolvedIds = {}
  /\ event = Event("init", None, None, None, None)

\* ----------------------------------------------------------- the messages
EncodeFailedMessage == "Failed to process image file. Please try another one."
NoImageMessage == "No image was generated. The model may have refused the request."
UnknownErrorMessage == "An unknown error occurred."
GenerateFailedPrefix == "Failed to generate image: "

\* A template literal prints an undefined value as "undefined".
TemplateText(o) == IF IsSome(o) THEN Get(o) ELSE "undefined"

\* The data URI with the two fields in the wrong places.
DataUri_Swapped(mimeType, data) ==
  "data:" \o TemplateText(data) \o ";base64," \o TemplateText(mimeType)

\* `data:${newMimeType};base64,${newBase64}`
DataUri(mimeType, data) ==
  "data:" \o TemplateText(mimeType) \o ";base64," \o TemplateText(data)

\* response.candidates?.[0]?.content?.parts?.[0]
FirstPart(response) ==
  IF ~IsSome(response.candidates) THEN None
  ELSE LET cs == Get(response.candidates)
       IN IF Len(cs) = 0 THEN None
          ELSE IF ~IsSome(cs[1].content) THEN None
          ELSE IF ~IsSome(Get(cs[1].content).parts) THEN None
          ELSE LET ps == Get(Get(cs[1].content).parts)
               IN IF Len(ps) = 0 THEN None ELSE Some(ps[1])

\* The message displayed for a caught error, without the fallback.
ErrorText_Verbatim(err) ==
  GenerateFailedPrefix \o (IF IsSome(err.message) THEN Get(err.message) ELSE "undefined")

\* `Failed to generate image: ${err.message || 'An unknown error occurred.'}`
ErrorText(err) ==
  GenerateFailedPrefix
    \o (IF IsSome(err.message) /\ Get(err.message) # ""
        THEN Get(err.message) ELSE UnknownErrorMessage)

\* The try block that takes the first image part of the first candidate,
\* wherever it stands.
TryBlock_AnyImagePart(out) ==
  IF out.rejected THEN [threw |-> TRUE, err |-> out.err, image |-> None]
  ELSE LET r == Get(out.response)
           ps == IF IsSome(FirstPart(r)) THEN Get(Get(Get(r.candidates)[1].content).parts) ELSE <<>>
       IN IF \E i \in 1..Len(ps) : IsSome(ps[i].inlineData)
          THEN LET i == CHOOSE k \in 1..Len(ps) : IsSome(ps[k].inlineData)
                   d == Get(ps[i].inlineData)
               IN [threw |-> FALSE, err |-> None, image |-> Some(DataUri(d.mimeType, d.data))]
          ELSE [threw |-> TRUE, err |-> Some([message |-> Some(NoImageMessage)]), image |-> None]

\* The try block of handleGenerate after the call settled with out: either
\* it throws (the rejection, or the no-image error) or it has the data URI.
TryBlock(out) ==
  IF out.rejected THEN [threw |-> TRUE, err |-> out.err, image |-> None]
  ELSE LET generatedPart == FirstPart(Get(out.response))
       IN IF IsSome(generatedPart) /\ IsSome(Get(generatedPart).inlineData)
          THEN LET d == Get(Get(generatedPart).inlineData)
               IN [threw |-> FALSE, err |-> None, image |-> Some(DataUri(d.mimeType, d.data))]
          ELSE [threw |-> TRUE, err |-> Some([message |-> Some(NoImageMessage)]), image |-> None]

\* ------------------------------------------------------------ the actions
\* The guard of handleGenerate without the prompt test.
GenerateGuard_NoPromptTest(r) == IsSome(r.base64Image) /\ ~r.isLoading

\* The guard of handleGenerate without the isLoading test.
GenerateGuard_NoLoadingTest(r) == IsSome(r.base64Image) /\ r.prompt # ""

\* The negation of handleGenerate's early return, on the values its closure
\* holds: if (!base64Image || !prompt || isLoading) return.
GenerateGuard(r) == IsSome(r.base64Image) /\ r.prompt # "" /\ ~r.isLoading

\* What an upload writes to editedImage and error, when it keeps them.
UploadCleared_Keep(o) == o

\* What an upload writes to editedImage and error: null.
UploadCleared(o) == None

\* What an accepted generate action writes to error and editedImage: null.
GenerateCleared(o) == None

\* The generate button is enabled in the last committed render:
\* disabled={!originalImage || !prompt || isLoading}.
ButtonEnabled ==
  IsSome(rendered.originalImage) /\ rendered.prompt # "" /\ ~rendered.isLoading

\* The file input's change event, when an upload also ends the Generating
\* state.
handleImageUpload_ResetsLoading(file) ==
  /\ uploads < MaxUploads
  /\ uploads' = uploads + 1
  /\ event' = Event(IF IsSome(file) THEN "upload" ELSE "uploadNoFile", file, None, None, None)
  /\ IF IsSome(file)
     THEN /\ editedImage' = UploadCleared(editedImage)
          /\ error' = UploadCleared(error)
          /\ fileName' = Some(Get(file).name)
          /\ originalImage' = Some(uploads + 1)
          /\ encodes' = encodes \cup { [id |-> uploads + 1, file |-> Get(file)] }
          /\ isLoading' = FALSE
          /\ UNCHANGED << base64Image, prompt >>
          /\ Commit
     ELSE UNCHANGED << originalImage, editedImage, base64Image, prompt, isLoading,
                       error, fileName, rendered, encodes >>
  /\ UNCHANGED << inflight, generateCalls, requestsIssued, resolvedIds >>

\* The file input's change event.
handleImageUpload(file) ==
  /\ uploads < MaxUploads
  /\ uploads' = uploads + 1
  /\ event' = Event(IF IsSome(file) THEN "upload" ELSE "uploadNoFile", file, None, None, None)
  /\ IF IsSome(file)
     THEN /\ editedImage' = UploadCleared(editedImage)
          /\ error' = UploadCleared(error)
          /\ fileName' = Some(Get(file).name)
          /\ originalImage' = Some(uploads + 1)
          /\ encodes' = encodes \cup { [id |-> uploads + 1, file |-> Get(file)] }
          /\ UNCHANGED << base64Image, prompt, isLoading >>
          /\ Commit
     ELSE UNCHANGED << originalImage, editedImage, base64Image, prompt, isLoading,
                       error, fileName, rendered, encodes >>
  /\ UNCHANGED << inflight, generateCalls, requestsIssued, resolvedIds >>

\* handleImageUpload resumes when the promise of fileToBase64 settles.
handleImageUploadResume(e, ev) ==
  /\ e \in encodes
  /\ ev \in readAsDataURL(e.file)
  /\ encodes' = encodes \ {e}
  /\ LET p == fileToBase64(e.file, ev)
     IN IF p.resolved
        THEN /\ base64Image' = Some([data |-> p.data, mimeType |-> p.mimeType])
             /\ event' = Event("encodeResolved", Some(e.file), Some(ev), None, None)
             /\ resolvedIds' = resolvedIds \cup {e.id}
             /\ UNCHANGED error
        ELSE /\ error' = Some(EncodeFailedMessage)
             /\ event' = Event("encodeRejected", Some(e.file), Some(ev), None, None)
             /\ UNCHANGED << base64Image, resolvedIds >>
  /\ UNCHANGED << originalImage, editedImage, prompt, isLoading, fileName, rendered,
                  inflight, uploads, generateCalls, requestsIssued >>

\* The instruction box's change event.
setPrompt(p) ==
  /\ p # prompt
  /\ prompt' = p
  /\ UNCHANGED << originalImage, editedImage, base64Image, isLoading, error, fileName >>
  /\ Commit
  /\ event' = Event("prompt", None, None, None, None)
  /\ UNCHANGED << encodes, inflight, uploads, generateCalls, requestsIssued, resolvedIds >>

\* An invocation of handleGenerate, up to the await.
handleGenerate ==
  /\ generateCalls < MaxGenerateCalls
  /\ generateCalls' = generateCalls + 1
  /\ IF GenerateGuard(rendered)
     THEN /\ isLoading' = TRUE
          /\ error' = GenerateCleared(error)
          /\ editedImage' = GenerateCleared(editedImage)
          /\ requestsIssued' = requestsIssued + 1
          /\ inflight' = inflight \cup
               { [id |-> requestsIssued + 1, image |-> Get(rendered.base64Image),
                  text |-> rendered.prompt, original |-> originalImage] }
          /\ event' = Event("issued", None, None, None, None)
          /\ UNCHANGED << originalImage, base64Image, prompt, fileName >>
          /\ Commit
     ELSE /\ event' = Event("ignored", None, None, None, None)
          /\ UNCHANGED << originalImage, editedImage, base64Image, prompt, isLoading,
                          error, fileName, rendered, inflight, requestsIssued >>
  /\ UNCHANGED << encodes, uploads, resolvedIds >>

\* handleGenerate's resumption when it drops the outcome of a call that was
\* issued for an earlier upload.
handleGenerateResume_DropStale(req, out) ==
  /\ req \in inflight
  /\ out \in Outcomes
  /\ inflight' = inflight \ {req}
  /\ event' = Event("settled", None, None, Some(req), Some(out))
  /\ LET t == TryBlock(out)
     IN IF req.original # originalImage
        THEN UNCHANGED << editedImage, error, isLoading >>
        ELSE /\ isLoading' = FALSE
             /\ IF t.threw
                THEN /\ error' = Some(ErrorText(Get(t.err)))
                     /\ UNCHANGED editedImage
                ELSE /\ editedImage' = t.image
                     /\ UNCHANGED error
  /\ UNCHANGED << originalImage, base64Image, prompt, fileName, rendered, encodes,
                  uploads, generateCalls, requestsIssued, resolvedIds >>

\* handleGenerate's resumption when a failed call is issued once more.
handleGenerateResume_Retry(req, out) ==
  /\ req \in inflight
  /\ out \in Outcomes
  /\ event' = Event("settled", None, None, Some(req), Some(out))
  /\ LET t == TryBlock(out)
     IN IF t.threw /\ requestsIssued < MaxGenerateCalls
        THEN /\ inflight' = (inflight \ {req}) \cup { [req EXCEPT !.id = requestsIssued + 1] }
             /\ requestsIssued' = requestsIssued + 1
             /\ UNCHANGED << editedImage, error, isLoading >>
        ELSE /\ inflight' = inflight \ {req}
             /\ isLoading' = FALSE
             /\ UNCHANGED requestsIssued
             /\ IF t.threw
                THEN /\ error' = Some(ErrorText(Get(t.err)))
                     /\ UNCHANGED editedImage
                ELSE /\ editedImage' = t.image
                     /\ UNCHANGED error
  /\ UNCHANGED << originalImage, base64Image, prompt, fileName, rendered, encodes,
                  uploads, generateCalls, resolvedIds >>

\* handleGenerate's resumption without the finally block: isLoading is cleared
\* on the success path only.
handleGenerateResume_NoFinally(req, out) ==
  /\ req \in inflight
  /\ out \in Outcomes
  /\ inflight' = inflight \ {req}
  /\ event' = Event("settled", None, None, Some(req), Some(out))
  /\ LET t == TryBlock(out)
     IN IF t.threw
        THEN /\ error' = Some(ErrorText(Get(t.err)))
             /\ UNCHANGED << editedImage, isLoading >>
        ELSE /\ editedImage' = t.image
             /\ isLoading' = FALSE
             /\ UNCHANGED error
  /\ UNCHANGED << originalImage, base64Image, prompt, fileName, rendered, encodes,
                  uploads, generateCalls, requestsIssued, resolvedIds >>

\* handleGenerate resumes when the generateContent call settles with out:
\* the rest of the try block, then catch and finally.
handleGenerateResume(req, out) ==
  /\ req \in inflight
  /\ out \in Outcomes
  /\ inflight' = inflight \ {req}
  /\ event' = Event("settled", None, None, Some(req), Some(out))
  /\ LET t == TryBlock(out)
     IN IF t.threw
        THEN /\ error' = Some(ErrorText(Get(t.err)))
             /\ UNCHANGED editedImage
        ELSE /\ editedImage' = t.image
             /\ UNCHANGED error
  /\ isLoading' = FALSE
  /\ UNCHANGED << originalImage, base64Image, prompt, fileName, rendered, encodes,
                  uploads, generateCalls, requestsIssued, resolvedIds >>

\* React commits the render that the updates of a resumed handler scheduled.
Render ==
  /\ rendered # Snapshot(originalImage, editedImage, base64Image, prompt, isLoading, error)
  /\ rendered' = Snapshot(originalImage, editedImage, base64Image, prompt, isLoading, error)
  /\ UNCHANGED << originalImage, editedImage, base64Image, prompt, isLoading, error,
                  fileName, encodes, inflight, uploads, generateCalls, requestsIssued,
                  resolvedIds >>
  /\ event' = Event("render", None, None, None, None)

\* ------------------------------------------------------------- the claims
Success == IsSome(editedImage)
Failure == IsSome(error)
Pending == isLoading

\* C1: at most one generateContent call is pending at any time.
C1_AtMostOneInFlight == Cardinality(inflight) <= 1

\* handleGenerate was invoked with an image and an instruction while a call
\* was pending, and was ignored.
C1_Witness ==
  /\ event.name = "ignored"
  /\ Cardinality(inflight) = 1
  /\ IsSome(rendered.base64Image)
  /\ rendered.prompt # ""

\* C2: an invocation of handleGenerate while the instruction is empty, no
\* encoded image is stored or a generation is pending issues no request and
\* leaves isLoading, error and editedImage as they were.
C2_NoOpWhenNotReady ==
  [][ (generateCalls' # generateCalls /\ (prompt = "" \/ base64Image = None \/ isLoading))
        => /\ requestsIssued' = requestsIssued
           /\ inflight' = inflight
           /\ isLoading' = isLoading
           /\ error' = error
           /\ editedImage' = editedImage ]_vars

\* handleGenerate was ignored for the pending generation alone.
C2_Witness ==
  /\ event.name = "ignored"
  /\ isLoading
  /\ IsSome(base64Image)
  /\ prompt # ""
  /\ generateCalls >= 2

\* C3: at most one of Success, Failure and Pending holds (with Empty being
\* none of them, exactly one of the four display states is current).
C3_ExactlyOneDisplayState ==
  /\ ~(Success /\ Failure)
  /\ ~(Success /\ Pending)
  /\ ~(Failure /\ Pending)

\* C4: right after the upload of a file no generation is pending and neither
\* a result nor an error is held.
C4_UploadResets ==
  event.name = "upload" => (~isLoading /\ editedImage = None /\ error = None)

\* C5: the outcome of a call that settles after a later upload is still
\* written to editedImage or error, and isLoading is cleared.
C5_NoCancellation ==
  (event.name = "settled" /\ Get(event.req).original # originalImage)
    => /\ ~isLoading
       /\ \/ (IsSome(editedImage) /\ editedImage # event.before.editedImage)
          \/ (IsSome(error) /\ error # event.before.error)

\* The result of a call issued for an earlier upload is held next to the
\* newly uploaded original.
C5_Witness ==
  /\ event.name = "settled"
  /\ Get(event.req).original # originalImage
  /\ IsSome(editedImage)
  /\ \E e \in encodes : Some(e.id) = originalImage

\* C6: right after the upload of a file, with its encode still pending, and
\* right after an accepted generate action, with its call still pending,
\* editedImage and error are both null.
C6_ActionClearsOutcome ==
  /\ event.name = "upload"
       => (editedImage = None /\ error = None /\ \E e \in encodes : e.id = uploads)
  /\ event.name = "issued"
       => (editedImage = None /\ error = None /\ \E r \in inflight : r.id = requestsIssued)

\* A file was uploaded while a result was displayed.
C6_Witness ==
  /\ event.name = "upload"
  /\ IsSome(event.before.editedImage)
  /\ editedImage = None

\* The first content part of the first candidate of a response is part.
FirstPartIs(response, part) ==
  /\ IsSome(response.candidates)
  /\ Len(Get(response.candidates)) >= 1
  /\ IsSome(Get(response.candidates)[1].content)
  /\ IsSome(Get(Get(response.candidates)[1].content).parts)
  /\ Len(Get(Get(Get(response.candidates)[1].content).parts)) >= 1
  /\ Get(Get(Get(response.candidates)[1].content).parts)[1] = part

MimeTypes == { "image/png", "image/webp" }
Payloads == { "QUJD", "UklG" }

NoFirstInlinePart(response) ==
  \/ ~IsSome(response.candidates)
  \/ Len(Get(response.candidates)) = 0
  \/ ~IsSome(Get(response.candidates)[1].content)
  \/ ~IsSome(Get(Get(response.candidates)[1].content).parts)
  \/ Len(Get(Get(Get(response.candidates)[1].content).parts)) = 0
  \/ ~IsSome(Get(Get(Get(response.candidates)[1].content).parts)[1].inlineData)

\* C8: when the call returns a response without inline data in the first
\* candidate's first part, the controller leaves Generating with an error
\* saying that no image was generated, editedImage null and isLoading false.
C8_NoImageFails ==
  (event.name = "settled" /\ ~Get(event.out).rejected
     /\ NoFirstInlinePart(Get(Get(event.out).response)))
    => /\ event.before.isLoading
       /\ error = Some("Failed to generate image: No image was generated. The model may have refused the request.")
       /\ editedImage = None
       /\ ~isLoading

\* A call returned a text part followed by an image part, and the error is
\* displayed.
C8_Witness ==
  /\ event.name = "settled"
  /\ ~Get(event.out).rejected
  /\ FirstPartIs(Get(Get(event.out).response), TextPart("Here it is"))
  /\ IsSome(error)
  /\ editedImage = None

\* The message text of an error, empty when it has none.
MessageOf(err) == IF IsSome(err.message) THEN Get(err.message) ELSE ""

\* C9 as stated: after a rejected call the error is the prefix followed by
\* the error's message text, whatever the message.
C9_ErrorIsPrefixPlusMessage ==
  (event.name = "settled" /\ Get(event.out).rejected)
    => error = Some("Failed to generate image: " \o MessageOf(Get(Get(event.out).err)))

\* C9: after a rejected call the error is the prefix followed by the error's
\* message text when that text is not empty, and by 'An unknown error
\* occurred.' when the message is empty or absent.
C9_ErrorIsPrefixPlusMessageOrFallback ==
  (event.name = "settled" /\ Get(event.out).rejected)
    => LET text == MessageOf(Get(Get(event.out).err))
       IN /\ text # "" => error = Some("Failed to generate image: " \o text)
          /\ text = "" => error = Some("Failed to generate image: An unknown error occurred.")

\* A call was rejected with an error of empty message.
C9_Witness ==
  /\ event.name = "settled"
  /\ Get(event.out).rejected
  /\ Get(Get(event.out).err).message = Some("")
  /\ error = Some("Failed to generate image: An unknown error occurred.")

\* C10: fileToBase64 rejects for an unreadable file and for an empty file, and
\* what it resolves with has a non-empty data string.
C10_EncoderNeverEmpty ==
  /\ event.name = "encodeResolved" => Get(base64Image).data # <<>>
  /\ (event.name \in {"encodeResolved", "encodeRejected"}
        /\ (~Get(event.ev).ok \/ Get(event.file).bytes = <<>>))
       => event.name = "encodeRejected"


\* The value of a base64 digit.
DigitValue(c) == (CHOOSE k \in 1..64 : B64Alphabet[k] = c) - 1

RECURSIVE DecodeGroups(_)
\* The bytes of a padded base64 text made of groups of four characters.
DecodeGroups(s) ==
  IF Len(s) = 0 THEN <<>>
  ELSE LET n == DigitValue(s[1]) * 262144 + DigitValue(s[2]) * 4096
                + (IF s[3] = "=" THEN 0 ELSE DigitValue(s[3]) * 64)
                + (IF s[4] = "=" THEN 0 ELSE DigitValue(s[4]))
       IN (IF s[3] = "=" THEN << n \div 65536 >>
           ELSE IF s[4] = "=" THEN << n \div 65536, (n \div 256) % 256 >>
           ELSE << n \div 65536, (n \div 256) % 256, n % 256 >>)
          \o DecodeGroups(SubSeq(s, 5, Len(s)))

\* Whether s is a well-formed padded base64 text.
IsBase64(s) ==
  /\ Len(s) % 4 = 0
  /\ \A i \in 1..Len(s) :
       \/ \E k \in 1..64 : B64Alphabet[k] = s[i]
       \/ s[i] = "=" /\ i >= Len(s) - 1 /\ (i = Len(s) - 1 => s[Len(s)] = "=")

\* C11: for a readable non-empty file of any declared type, fileToBase64
\* resolves, its data is the whole base64 payload of the file (it decodes to
\* the file's bytes), and its mimeType is the declared type.
C11_EncoderRoundTrip ==
  (event.name \in {"encodeResolved", "encodeRejected"}
     /\ Get(event.ev).ok /\ Get(event.file).bytes # <<>>)
    => /\ event.name = "encodeResolved"
       /\ IsBase64(Get(base64Image).data)
       /\ DecodeGroups(Get(base64Image).data) = Get(event.file).bytes
       /\ Get(base64Image).mimeType = Get(event.file).type

\* C11 for the declared types without a comma.
C11_EncoderRoundTripPlainType ==
  (event.name \in {"encodeResolved", "encodeRejected"}
     /\ Get(event.ev).ok /\ Get(event.file).bytes # <<>>
     /\ \A i \in 1..Len(Get(event.file).type) : Get(event.file).type[i] # ",")
    => /\ event.name = "encodeResolved"
       /\ IsBase64(Get(base64Image).data)
       /\ DecodeGroups(Get(base64Image).data) = Get(event.file).bytes
       /\ Get(base64Image).mimeType = Get(event.file).type

\* The closure of handleGenerate passes its guard.
GuardPassed ==
  IsSome(rendered.base64Image) /\ rendered.prompt # "" /\ ~rendered.isLoading

\* C12: a call is issued only by an invocation of handleGenerate that passes
\* the guard, and such an invocation issues exactly one call; nothing else
\* (no settled or failed call) issues one.
C12_OneCallPerAcceptedGenerate ==
  [][ /\ (requestsIssued' # requestsIssued \/ inflight' \ inflight # {})
         => (generateCalls' = generateCalls + 1 /\ GuardPassed)
      /\ (generateCalls' # generateCalls /\ GuardPassed)
         => /\ requestsIssued' = requestsIssued + 1
            /\ Cardinality(inflight' \ inflight) = 1
            /\ inflight \subseteq inflight' ]_vars

\* After a failed call the user triggered generate again, and the second call
\* was issued.
C12_Witness ==
  /\ event.name = "issued"
  /\ event.before.error = Some("Failed to generate image: fetch failed")
  /\ requestsIssued = 2
  /\ Cardinality(inflight) = 1

\* C13: a generation that is pending eventually settles into display state
\* (a result or an error) with isLoading false, and the next render gives
\* handleGenerate a closure whose guard no longer sees a pending generation
\* or a missing image, so that it accepts the instruction again.
C13_GenerationEnds ==
  /\ isLoading ~> (/\ event.name = "settled"
                   /\ ~isLoading
                   /\ inflight = {}
                   /\ (IsSome(editedImage) \/ IsSome(error)))
  /\ isLoading ~> (/\ ~isLoading
                   /\ ~rendered.isLoading
                   /\ IsSome(rendered.base64Image))

\* A third generation was accepted after one that ended with the no-image
\* error.
C13_Witness ==
  /\ event.name = "issued"
  /\ requestsIssued = 3
  /\ event.before.error =
       Some("Failed to generate image: No image was generated. The model may have refused the request.")
  /\ isLoading

\* The file selected last (the files of Files have different names).
LatestFile == CHOOSE f \in Files : Some(f.name) = fileName

\* The encoded image of a file: its base64 payload and declared type.
Encoded(f) == [data |-> btoa(f.bytes), mimeType |-> f.type]

\* C14: the call that an accepted generate action issues carries the encoded
\* image of the file selected last.
C14_RequestCarriesLatestFile ==
  event.name = "issued"
    => \A r \in inflight : r.id = requestsIssued => r.image = Encoded(LatestFile)

\* C15: once no encode is pending and the encodes of two uploads, the last
\* one among them, have resolved, base64Image is the encoded image of the
\* file selected last.
C15_LaterUploadWins ==
  (/\ encodes = {}
   /\ IsSome(originalImage)
   /\ Get(originalImage) \in resolvedIds
   /\ Cardinality(resolvedIds) >= 2)
    => base64Image = Some(Encoded(LatestFile))

\* C16: isLoading is true exactly when a generateContent call is pending.
C16_LoadingIffInFlight == isLoading <=> (inflight # {})

\* A file was uploaded while a call was pending, and isLoading is still true.
C16_Witness ==
  /\ event.name = "upload"
  /\ isLoading
  /\ Cardinality(inflight) = 1

\* C17: a click on the enabled generate button issues a call and enters
\* Generating.
C17_EnabledButtonGenerates ==
  [][ (generateCalls' # generateCalls /\ ButtonEnabled)
        => (requestsIssued' = requestsIssued + 1 /\ inflight' # inflight /\ isLoading') ]_vars

\* ------------------------------------------------------ the specification
Next ==
  \/ \E f \in Files : handleImageUpload(Some(f))
  \/ handleImageUpload(None)
  \/ \E e \in encodes : \E ev \in readAsDataURL(e.file) : handleImageUploadResume(e, ev)
  \/ \E p \in Prompts : setPrompt(p)
  \/ handleGenerate
  \/ \E req \in inflight : \E out \in Outcomes : handleGenerateResume(req, out)
  \/ Render

Spec == Init /\ [][Next]_vars

\* A pending generateContent call settles.
Settle == \E req \in inflight : \E out \in Outcomes : handleGenerateResume(req, out)

\* The remote call eventually resolves or rejects, and React eventually runs
\* the render that a resumed handler scheduled.
SpecLive == Spec /\ WF_vars(Settle) /\ WF_vars(Render)

\* The encoder alone, on files of every declared type and content: files are
\* selected and their encodes settle.
NextEncoder ==
  \/ \E f \in EncoderFiles : handleImageUpload(Some(f))
  \/ \E e \in encodes : \E ev \in readAsDataURL(e.file) : handleImageUploadResume(e, ev)

SpecEncoder == Init /\ [][NextEncoder]_vars

====
